---- MODULE Spec2Model ----
(***************************************************************************)
(* Mini-Brevo (src/app.py): contact store, import normalizer, campaign     *)
(* store, dispatcher and mail transport, as a state machine.               *)
(*                                                                         *)
(* A Python str is a sequence of one-character strings, so that strip(),   *)
(* lower(), split(), replace() and the email regular expression are        *)
(* computed character by character.                                        *)
(***************************************************************************)
EXTENDS Integers, Sequences, FiniteSets, TLC

\* ------------------------------------------------------------------ bounds
MaxContactId == 2
MaxCampaigns == 1
MaxSends == 2
MaxTime == 1

\* ----------------------------------------------------------- Python strings
UpperLetters ==
    <<"A","B","C","D","E","F","G","H","I","J","K","L","M",
      "N","O","P","Q","R","S","T","U","V","W","X","Y","Z">>

LowerLetters ==
    <<"a","b","c","d","e","f","g","h","i","j","k","l","m",
      "n","o","p","q","r","s","t","u","v","w","x","y","z">>

Range(s) == {s[i] : i \in 1..Len(s)}

Letters == Range(UpperLetters) \cup Range(LowerLetters)

Digits == {"0","1","2","3","4","5","6","7","8","9"}

\* the characters str.strip() removes and the regex class \s matches
Whitespace == {" ", "\t", "\n", "\r"}

\* the line boundaries of str.splitlines()
LineBreaks == {"\n", "\r"}

\* the lower-case letter of each upper-case letter
LowerOf ==
    [c \in Range(UpperLetters) |->
        LowerLetters[CHOOSE i \in 1..Len(UpperLetters) : UpperLetters[i] = c]]

lower_char(c) == IF c \in DOMAIN LowerOf THEN LowerOf[c] ELSE c

\* str.lower()
lower(s) == [i \in 1..Len(s) |-> lower_char(s[i])]

RECURSIVE lstrip(_)
lstrip(s) ==
    IF Len(s) > 0 /\ s[1] \in Whitespace THEN lstrip(Tail(s)) ELSE s

RECURSIVE rstrip(_)
rstrip(s) ==
    IF Len(s) > 0 /\ s[Len(s)] \in Whitespace
    THEN rstrip(SubSeq(s, 1, Len(s) - 1))
    ELSE s

\* str.strip()
strip(s) == rstrip(lstrip(s))

\* the pieces of s between the characters of seps (empty pieces included),
\* as str.split(sep) gives for a one-character sep
RECURSIVE split(_, _)
split(s, seps) ==
    IF \E i \in 1..Len(s) : s[i] \in seps
    THEN LET i == CHOOSE k \in 1..Len(s) :
                    s[k] \in seps /\ \A j \in 1..(k - 1) : s[j] \notin seps
         IN  <<SubSeq(s, 1, i - 1)>> \o split(SubSeq(s, i + 1, Len(s)), seps)
    ELSE <<s>>

\* sep.join(parts)
RECURSIVE join(_, _)
join(parts, sep) ==
    IF Len(parts) = 0 THEN <<>>
    ELSE IF Len(parts) = 1 THEN parts[1]
    ELSE parts[1] \o sep \o join(Tail(parts), sep)

\* s starts with the characters of pat
starts_with(s, pat) == Len(s) >= Len(pat) /\ SubSeq(s, 1, Len(pat)) = pat

\* str.replace(old, new, 1): the first occurrence only
replace_first(s, old, new) ==
    IF \E i \in 1..Len(s) : starts_with(SubSeq(s, i, Len(s)), old)
    THEN LET i == CHOOSE k \in 1..Len(s) :
                    /\ starts_with(SubSeq(s, k, Len(s)), old)
                    /\ \A j \in 1..(k - 1) : ~starts_with(SubSeq(s, j, Len(s)), old)
         IN  SubSeq(s, 1, i - 1) \o new \o SubSeq(s, i + Len(old), Len(s))
    ELSE s

\* str.replace(old, new): every non-overlapping occurrence, left to right
RECURSIVE replace(_, _, _)
replace(s, old, new) ==
    IF Len(s) = 0 THEN <<>>
    ELSE IF starts_with(s, old)
    THEN new \o replace(SubSeq(s, Len(old) + 1, Len(s)), old, new)
    ELSE <<s[1]>> \o replace(Tail(s), old, new)

\* a pandas missing value (an empty CSV cell), and str() of a cell
NaN == <<"NaN">>

py_str(v) == IF v = NaN THEN <<"n","a","n">> ELSE v

\* [f(x) for x in s]
RECURSIVE map_strip(_)
map_strip(ss) ==
    IF Len(ss) = 0 THEN <<>> ELSE <<strip(ss[1])>> \o map_strip(Tail(ss))

non_empty(ss) == SelectSeq(ss, LAMBDA t : Len(t) > 0)

\* ----------------------------------------------------------- is_valid_email
LocalChars == Letters \cup Digits \cup {".", "_", "%", "+", "-"}

DomainChars == Letters \cup Digits \cup {".", "-"}

all_in(s, chars) == \A i \in 1..Len(s) : s[i] \in chars

\* ^[A-Za-z0-9._%+-]+@[A-Za-z0-9.-]+\.[A-Za-z]{2,}$ on u, `$` at the very end
matches_shape(u) ==
    \E a \in 1..Len(u) : \E d \in (a + 1)..Len(u) :
        /\ u[a] = "@"
        /\ u[d] = "."
        /\ a > 1
        /\ all_in(SubSeq(u, 1, a - 1), LocalChars)
        /\ d > a + 1
        /\ all_in(SubSeq(u, a + 1, d - 1), DomainChars)
        /\ Len(u) - d >= 2
        /\ all_in(SubSeq(u, d + 1, Len(u)), Letters)

\* re.match(...) is not None; Python's `$` also matches before one final "\n"
is_valid_email(s) ==
    \/ matches_shape(s)
    \/ Len(s) > 0 /\ s[Len(s)] = "\n" /\ matches_shape(SubSeq(s, 1, Len(s) - 1))

\* -------------------------------------------------------- Import Normalizer
\* An uploaded file: its extension, and what file.read() (TXT) or
\* pd.read_csv(file) (CSV: header and cells, NaN for an empty cell) gives.
Row(email, name, tags) == [email |-> email, name |-> name, tags |-> tags]

\* a lookup that falls back on the first column
col_of_or_first(columns, key) ==
    LET hits == {i \in 1..Len(columns) : lower(columns[i]) = key}
    IN  IF hits = {} THEN 1 ELSE CHOOSE i \in hits : \A j \in hits : j <= i

\* cols_lower.get(key): the last column whose lower-cased name is key, 0 if none
col_of(columns, key) ==
    LET hits == {i \in 1..Len(columns) : lower(columns[i]) = key}
    IN  IF hits = {} THEN 0 ELSE CHOOSE i \in hits : \A j \in hits : j <= i

k_email == <<"e","m","a","i","l">>
k_name == <<"n","a","m","e">>
k_tags == <<"t","a","g","s">>

\* df["email"].astype(str).str.strip().str.lower()
clean_email(rows) ==
    [i \in 1..Len(rows) |->
        [rows[i] EXCEPT !.email = lower(strip(py_str(rows[i].email)))]]

valid_rows(rows) == SelectSeq(rows, LAMBDA r : is_valid_email(r.email))

\* df.drop_duplicates(subset=["email"], keep="last")
drop_duplicates_keep_last(rows) ==
    SelectSeq([i \in 1..Len(rows) |->
                  IF \A j \in (i + 1)..Len(rows) : rows[j].email # rows[i].email
                  THEN rows[i] ELSE [email |-> <<>>, name |-> <<>>, tags |-> <<>>]],
              LAMBDA r : Len(r.email) > 0)

\* df.drop_duplicates(subset=["email"], keep="first")
drop_duplicates(rows) ==
    LET keep == {i \in 1..Len(rows) :
                    \A j \in 1..(i - 1) : rows[j].email # rows[i].email}
        RECURSIVE take(_)
        take(i) == IF i > Len(rows) THEN <<>>
                   ELSE (IF i \in keep THEN <<rows[i]>> ELSE <<>>) \o take(i + 1)
    IN  take(1)

\* the CSV branch up to the frame shown for import
csv_frame(columns, cells) ==
    LET e == col_of(columns, k_email)
        n == col_of(columns, k_name)
        t == col_of(columns, k_tags)
        raw == [i \in 1..Len(cells) |->
                  Row(cells[i][e],
                      IF n = 0 THEN <<>> ELSE cells[i][n],
                      IF t = 0 THEN <<>> ELSE cells[i][t])]
        cleaned == clean_email(raw)
    IN  IF e = 0
        THEN [error |-> TRUE, df |-> <<>>, skipped |-> 0]
        ELSE [error |-> FALSE, df |-> valid_rows(cleaned),
              skipped |-> Len(cleaned) - Len(valid_rows(cleaned))]

\* one stripped non-empty line of a TXT file
txt_line(ln) ==
    IF ";" \in Range(ln)
    THEN LET partes == map_strip(split(ln, {";"}))
         IN  <<Row(IF Len(partes) >= 1 THEN lower(partes[1]) ELSE <<>>,
                   IF Len(partes) >= 2 THEN partes[2] ELSE <<>>,
                   IF Len(partes) >= 3
                   THEN join(SubSeq(partes, 3, Len(partes)), <<";">>)
                   ELSE <<>>)>>
    ELSE \* re.split(r"[,\s;]+", ln): the runs of separators only add empty
         \* tokens, which the comprehension drops
         LET tokens == non_empty(map_strip(split(ln, {",", ";"} \cup Whitespace)))
         IN  [i \in 1..Len(tokens) |-> Row(lower(tokens[i]), <<>>, <<>>)]

RECURSIVE txt_lines(_)
txt_lines(lines) ==
    IF Len(lines) = 0 THEN <<>>
    ELSE txt_line(lines[1]) \o txt_lines(Tail(lines))

\* the TXT branch up to the frame shown for import
txt_frame(text) ==
    LET lines == non_empty(map_strip(split(text, LineBreaks)))
        rows == txt_lines(lines)
        cleaned == clean_email(rows)
    IN  [error |-> FALSE, df |-> drop_duplicates(valid_rows(cleaned)),
         skipped |-> Len(cleaned) - Len(valid_rows(cleaned))]

x_csv == <<"c","s","v">>
x_txt == <<"t","x","t">>

\* the branch on file.name; another name leaves df = None
import_frame(file) ==
    IF file.ext = x_csv THEN csv_frame(file.columns, file.cells)
    ELSE IF file.ext = x_txt THEN txt_frame(file.text)
    ELSE [error |-> FALSE, df |-> <<>>, skipped |-> 0]

\* --------------------------------------------------------------- DB helpers
\* Python's None (an unset environment variable, a NULL column)
None == <<"None">>

\* the contact_id column of a test send (NULL)
NullId == 0

\* truthiness of an optional str
truthy(v) == v # None /\ Len(v) > 0

\* INSERT OR REPLACE: the row that holds the email gives way to the new one
insert_or_replace(db, name, email, tags, t) ==
    LET e == lower(strip(email))
    IN  [rows |-> {r \in db.rows : r.email # e} \cup
                    {[id |-> db.seq + 1, name |-> strip(name), email |-> e,
                      tags |-> strip(tags), created_at |-> t]},
         seq |-> db.seq + 1]

\* The contacts table is db.rows, a set of rows; db.seq is the AUTOINCREMENT
\* counter (sqlite_sequence), so an id is never given twice.
\* INSERT OR IGNORE against the UNIQUE(email) constraint.
insert_contact(db, name, email, tags, t) ==
    LET e == lower(strip(email))
    IN  IF \E r \in db.rows : r.email = e
        THEN db
        ELSE [rows |-> db.rows \cup
                        {[id |-> db.seq + 1, name |-> strip(name), email |-> e,
                          tags |-> strip(tags), created_at |-> t]},
              seq |-> db.seq + 1]

\* the loop of bulk_import_contacts from row i on; count counts the calls made
RECURSIVE bulk_import_from(_, _, _, _, _)
bulk_import_from(db, df, i, count, t) ==
    IF i > Len(df) THEN [db |-> db, count |-> count]
    ELSE LET name == strip(py_str(df[i].name))
             email == lower(strip(py_str(df[i].email)))
             tags == strip(py_str(df[i].tags))
         IN  IF Len(email) > 0
             THEN bulk_import_from(insert_contact(db, name, email, tags, t),
                                   df, i + 1, count + 1, t)
             ELSE bulk_import_from(db, df, i + 1, count, t)

bulk_import_contacts(db, df, t) == bulk_import_from(db, df, 1, 0, t)

\* INSERT INTO campaigns: ids count up, no row is ever deleted
insert_campaign(table, subject, body, t) ==
    Append(table, [id |-> Len(table) + 1, subject |-> strip(subject),
                   body |-> body, created_at |-> t])

\* INSERT INTO sends
log_send(log, campaign_id, contact_id, email, status, error, t) ==
    Append(log, [id |-> Len(log) + 1, campaign_id |-> campaign_id,
                 contact_id |-> contact_id, email |-> email, status |-> status,
                 error |-> error, sent_at |-> t])

\* SELECT * FROM contacts ORDER BY id DESC
RECURSIVE select_contacts(_)
select_contacts(rows) ==
    IF rows = {} THEN <<>>
    ELSE LET top == CHOOSE r \in rows : \A q \in rows : q.id <= r.id
         IN  <<top>> \o select_contacts(rows \ {top})

\* SELECT * FROM campaigns ORDER BY id DESC
select_campaigns(table) ==
    [i \in 1..Len(table) |-> table[Len(table) + 1 - i]]

\* ------------------------------------------------------------- Email Sender
demo_from == <<"d","e","m","o","@","e","x","a","m","p","l","e",".","c","o","m">>

\* os.getenv("FROM_EMAIL", SMTP_USER or "demo@example.com")
FROM_EMAIL(env) ==
    IF env.FROM_EMAIL # None THEN env.FROM_EMAIL
    ELSE IF truthy(env.SMTP_USER) THEN env.SMTP_USER
    ELSE demo_from

\* SMTP_HOST and SMTP_USER and SMTP_PASS, the from-address not looked at
configured_without_from(env) ==
    /\ truthy(env.SMTP_HOST)
    /\ truthy(env.SMTP_USER)
    /\ truthy(env.SMTP_PASS)

\* SMTP_HOST and SMTP_USER and SMTP_PASS and FROM_EMAIL
configured(env) ==
    /\ truthy(env.SMTP_HOST)
    /\ truthy(env.SMTP_USER)
    /\ truthy(env.SMTP_PASS)
    /\ truthy(FROM_EMAIL(env))

SIMULATED == <<"S","I","M","U","L","A","T","E","D">>

\* what the SMTP server does with one message: accepts it (None) or raises
\* an exception with this text
smtp_refused == <<"5","5","0">>

SmtpOutcomes == {None, smtp_refused}

\* send_email_smtp: the pair returned, the call's arguments, and whether
\* smtplib.SMTP(...) was opened. outcome is the server's answer, read only
\* when a connection is made.
send_email_smtp(env, to_email, subject, body_html, outcome) ==
    IF ~configured(env)
    THEN [ok |-> TRUE, err |-> SIMULATED, to |-> to_email, subject |-> subject,
          body |-> body_html, connected |-> FALSE]
    ELSE IF outcome = None
    THEN [ok |-> TRUE, err |-> <<>>, to |-> to_email, subject |-> subject,
          body |-> body_html, connected |-> TRUE]
    ELSE [ok |-> FALSE, err |-> outcome, to |-> to_email, subject |-> subject,
          body |-> body_html, connected |-> TRUE]

placeholder == <<"{","{","n","a","m","e","}","}">>

test_name == <<"P","r","u","e","b","a">>

\* -------------------------------------------------------------------- state
VARIABLES
    contacts,       \* the rows of the contacts table
    contacts_seq,   \* its AUTOINCREMENT counter
    campaigns,      \* the campaigns table, in id order
    sends,          \* the sends table, in id order
    contacts_df,    \* st.session_state["contacts_df"]
    campaigns_df,   \* st.session_state["campaigns_df"]
    env,            \* the SMTP_* / FROM_EMAIL environment, read at start
    now,            \* datetime.utcnow()
    report          \* what the last handler showed and which calls it made

vars == <<contacts, contacts_seq, campaigns, sends, contacts_df, campaigns_df,
          env, now, report>>

\* ------------------------------------------------------------------- inputs
e_a == <<"a","@","x",".","c","o">>
e_A == <<"A","@","X",".","C","O">>
e_b == <<"b","@","y",".","c","o">>
e_b_sp == <<" ","B","@","y",".","c","o"," ">>
e_bad == <<"a","@","x">>
n_A == <<"A">>
n_A_sp == <<" ","A">>
t_t1 == <<"t","1">>
smtp_value == <<"h">>

\* the text boxes of the add form
AddEmails == {<<>>, e_a, e_A, e_b_sp, e_bad}
AddNames == {<<>>, n_A_sp}
AddTags == {t_t1}

\* the cells typed into the data editor
EditEmails == {e_b_sp, e_bad}
EditNames == {n_A}

\* the environments the process can start in
Env(host, user, pass, from) ==
    [SMTP_HOST |-> host, SMTP_USER |-> user, SMTP_PASS |-> pass,
     FROM_EMAIL |-> from]

Envs ==
    { Env(smtp_value, smtp_value, smtp_value, None),
      Env(smtp_value, smtp_value, smtp_value, <<>>),
      Env(None, smtp_value, smtp_value, e_a),
      Env(smtp_value, <<>>, smtp_value, None),
      Env(smtp_value, smtp_value, None, e_a),
      Env(None, None, None, None) }

\* the uploaded files
File(ext, text, columns, cells) ==
    [ext |-> ext, text |-> text, columns |-> columns, cells |-> cells]

l_struct == e_a \o <<";">> \o n_A \o <<";">> \o t_t1
l_upper == e_A
l_comma == e_a \o <<",">> \o e_b
l_space == e_a \o <<" ">> \o e_b
l_semi == e_a \o <<";">> \o e_b
l_bad == e_bad \o <<" ">>

TxtLines == {l_struct, l_upper, l_comma, l_space, l_semi, l_bad}

TxtFiles ==
    {File(x_txt, a, <<>>, <<>>) : a \in TxtLines} \cup
    {File(x_txt, a \o <<"\n">> \o b, <<>>, <<>>) : a \in TxtLines, b \in TxtLines}

h_email == <<"E","m","a","i","l">>
h_mail == <<"m","a","i","l">>
h_name == <<"N","a","m","e">>

CsvHeaders ==
    {<<h_email, h_name, k_tags>>, <<k_email>>, <<h_name, k_email>>,
     <<h_name, k_tags>>, <<h_mail, k_name>>, <<h_name>>}

CsvCells == {e_a, e_b_sp, e_bad, NaN}

CsvFiles ==
    UNION {{File(x_csv, <<>>, h, <<r>>) : r \in [1..Len(h) -> CsvCells]} :
              h \in CsvHeaders}
    \cup {File(x_csv, <<>>, <<h_email, h_name, k_tags>>,
               <<<<e_A, n_A, t_t1>>, <<e_a, NaN, NaN>>>>)}

x_other == <<"C","S","V">>

ImportFiles == TxtFiles \cup CsvFiles \cup {File(x_other, e_a, <<>>, <<>>)}

\* the files offered on the contacts page
SpecFiles ==
    {File(x_txt, l_struct \o <<"\n">> \o l_upper, <<>>, <<>>),
     File(x_txt, l_semi, <<>>, <<>>),
     File(x_csv, <<>>, <<h_email, h_name, k_tags>>,
          <<<<e_A, n_A, t_t1>>, <<e_a, NaN, NaN>>>>),
     File(x_csv, <<>>, <<h_name, k_tags>>, <<<<e_b_sp, e_a>>>>),
     File(x_other, e_a, <<>>, <<>>)}

\* ------------------------------------------------------------ page_contacts
db_now == [rows |-> contacts, seq |-> contacts_seq]

\* every handler of the page ends in a rerun that reads the table again
\* (line 262), and st.rerun() after a write
refresh_contacts(db) ==
    /\ contacts' = db.rows
    /\ contacts_seq' = db.seq
    /\ contacts_df' = select_contacts(db.rows)

\* "Guardar" of the add form
AddContact(name, email, tags) ==
    /\ IF Len(email) = 0
       THEN /\ report' = [op |-> "add", name |-> name, email |-> email,
                          tags |-> tags, error |-> "required"]
            /\ refresh_contacts(db_now)
       ELSE IF ~is_valid_email(email)
       THEN /\ report' = [op |-> "add", name |-> name, email |-> email,
                          tags |-> tags, error |-> "invalid"]
            /\ refresh_contacts(db_now)
       ELSE /\ report' = [op |-> "add", name |-> name, email |-> email,
                          tags |-> tags, error |-> "none"]
            /\ refresh_contacts(insert_contact(db_now, name, email, tags, now))
    /\ contacts_seq' <= MaxContactId
    /\ UNCHANGED <<campaigns, sends, campaigns_df, env, now>>

\* A file in the uploader and, where the frame is shown, "Importar contactos"
ImportContacts(file) ==
    LET frame == import_frame(file)
        done == bulk_import_contacts(db_now, frame.df, now)
    IN  /\ IF frame.error
           THEN /\ report' = [op |-> "import", file |-> file, error |-> TRUE,
                              df |-> <<>>, skipped |-> 0, count |-> 0]
                /\ UNCHANGED <<contacts, contacts_seq, contacts_df>>
           ELSE IF Len(frame.df) = 0
           THEN /\ report' = [op |-> "import", file |-> file, error |-> FALSE,
                              df |-> <<>>, skipped |-> frame.skipped,
                              count |-> 0]
                /\ refresh_contacts(db_now)
           ELSE /\ report' = [op |-> "import", file |-> file, error |-> FALSE,
                              df |-> frame.df, skipped |-> frame.skipped,
                              count |-> done.count]
                /\ refresh_contacts(done.db)
        /\ contacts_seq' <= MaxContactId
        /\ UNCHANGED <<campaigns, sends, campaigns_df, env, now>>

\* the pass of the loop over a table with no UNIQUE(email) constraint
save_row_no_unique(acc, original, row) ==
    LET rid == row.id
        new_email == lower(strip(py_str(row.email)))
        new_name == strip(py_str(row.name))
        new_tags == strip(py_str(row.tags))
        orig == CHOOSE r \in original : r.id = rid
    IN  IF ~is_valid_email(new_email)
        THEN [acc EXCEPT !.errors = Append(@, [id |-> rid, kind |-> "invalid"])]
        ELSE IF orig.email # new_email \/ orig.name # new_name
                \/ orig.tags # new_tags
        THEN [acc EXCEPT
                !.rows = {IF r.id = rid
                          THEN [r EXCEPT !.email = new_email,
                                         !.name = new_name,
                                         !.tags = new_tags]
                          ELSE r : r \in acc.rows},
                !.updates = @ + 1]
        ELSE acc

\* one pass of the loop of "Guardar cambios" (lines 290-310) over a row of
\* the editor; acc is the table inside the transaction with the counters
save_row(acc, original, row) ==
    LET rid == row.id
        new_email == lower(strip(py_str(row.email)))
        new_name == strip(py_str(row.name))
        new_tags == strip(py_str(row.tags))
        orig == CHOOSE r \in original : r.id = rid
    IN  IF ~is_valid_email(new_email)
        THEN [acc EXCEPT !.errors = Append(@, [id |-> rid, kind |-> "invalid"])]
        ELSE IF orig.email # new_email \/ orig.name # new_name
                \/ orig.tags # new_tags
        THEN \* UPDATE contacts SET ... WHERE id=?, under UNIQUE(email): the
             \* statement that breaks the constraint raises and changes nothing
             IF \E r \in acc.rows : r.id # rid /\ r.email = new_email
             THEN [acc EXCEPT
                     !.errors = Append(@, [id |-> rid, kind |-> "integrity"])]
             ELSE [acc EXCEPT
                     !.rows = {IF r.id = rid
                               THEN [r EXCEPT !.email = new_email,
                                              !.name = new_name,
                                              !.tags = new_tags]
                               ELSE r : r \in acc.rows},
                     !.updates = @ + 1]
        ELSE acc

\* the loop leaving at the first row whose email fails the validator
RECURSIVE save_rows_until_invalid(_, _, _, _)
save_rows_until_invalid(acc, original, edited, i) ==
    IF i > Len(edited) THEN acc
    ELSE IF ~is_valid_email(lower(strip(py_str(edited[i].email))))
    THEN save_row(acc, original, edited[i])
    ELSE save_rows_until_invalid(save_row(acc, original, edited[i]),
                                 original, edited, i + 1)

\* the loop of lines 293-310 over the rows of the editor, in its order
RECURSIVE save_rows(_, _, _, _)
save_rows(acc, original, edited, i) ==
    IF i > Len(edited) THEN acc
    ELSE save_rows(save_row(acc, original, edited[i]), original, edited, i + 1)

\* what the data editor can hold for a row of the table: the id is fixed
EditedRows(r, emails, names) ==
    {[id |-> r.id, email |-> e, name |-> n, tags |-> r.tags] :
        e \in {r.email} \cup emails, n \in {r.name} \cup names}

\* "Guardar cambios": edited is the editor's frame, a row per row of
\* df_contacts (line 263) in its order
SaveChanges(edited) ==
    LET original == select_contacts(contacts)
        done == save_rows([rows |-> contacts, updates |-> 0, errors |-> <<>>],
                          contacts, edited, 1)
    IN  /\ Len(edited) = Len(original)
        /\ \A i \in 1..Len(edited) : edited[i].id = original[i].id
        /\ report' = [op |-> "save", edited |-> edited,
                      updates |-> done.updates, errors |-> done.errors]
        /\ refresh_contacts([rows |-> done.rows, seq |-> contacts_seq])
        /\ UNCHANGED <<campaigns, sends, campaigns_df, env, now>>

\* str.isdigit() and int() of the id typed
is_digit(s) == Len(s) > 0 /\ all_in(s, Digits)

digit_value(c) == CHOOSE d \in 0..9 : <<"0","1","2","3","4","5","6","7","8","9">>[d + 1] = c

RECURSIVE to_int(_)
to_int(s) ==
    IF Len(s) = 0 THEN 0
    ELSE 10 * to_int(SubSeq(s, 1, Len(s) - 1)) + digit_value(s[Len(s)])

\* DELETE FROM contacts WHERE id=?
delete_contact(rows, id) == {r \in rows : r.id # id}

DeleteIds == {<<"1">>, <<"2">>, <<"0","3">>, <<"x">>, <<>>}

\* "Eliminar por ID"
DeleteById(delete_id) ==
    /\ IF is_digit(delete_id)
       THEN /\ report' = [op |-> "delete", error |-> "none"]
            /\ refresh_contacts([rows |-> delete_contact(contacts, to_int(delete_id)),
                                 seq |-> contacts_seq])
       ELSE /\ report' = [op |-> "delete", error |-> "not a number"]
            /\ refresh_contacts(db_now)
    /\ UNCHANGED <<campaigns, sends, campaigns_df, env, now>>

\* the per-row delete with the contact's sends deleted along with it
DeleteRowCascade(row) ==
    /\ report' = [op |-> "delete_row", error |-> "none"]
    /\ refresh_contacts([rows |-> delete_contact(contacts, row.id),
                         seq |-> contacts_seq])
    /\ sends' = SelectSeq(sends, LAMBDA s : s.contact_id # row.id)
    /\ UNCHANGED <<campaigns, campaigns_df, env, now>>

\* the per-row delete button; the search box only narrows the rows shown
DeleteRow(row) ==
    /\ report' = [op |-> "delete_row", error |-> "none"]
    /\ refresh_contacts([rows |-> delete_contact(contacts, row.id),
                         seq |-> contacts_seq])
    /\ UNCHANGED <<campaigns, sends, campaigns_df, env, now>>

\* ----------------------------------------------------------- page_campaigns
c_subject == <<"H","i">>
c_body == placeholder \o <<"!">> \o placeholder
c_plain == <<"T","e","s","t">>

Subjects == {<<>>, c_subject}
Bodies == {<<>>, c_body, c_plain}

\* "Crear campaña", and the read of the table that follows it
CreateCampaign(subject, body) ==
    /\ IF Len(subject) > 0 /\ Len(body) > 0
       THEN /\ Len(campaigns) < MaxCampaigns
            /\ campaigns' = insert_campaign(campaigns, subject, body, now)
            /\ report' = [op |-> "campaign", error |-> "none"]
       ELSE /\ campaigns' = campaigns
            /\ report' = [op |-> "campaign", error |-> "required"]
    /\ campaigns_df' = select_campaigns(campaigns')
    /\ UNCHANGED <<contacts, contacts_seq, sends, contacts_df, env, now>>

\* ---------------------------------------------------------------- page_send
\* the page shows its widgets only with a campaign and a contact in the session
send_page_open == Len(campaigns_df) > 0 /\ Len(contacts_df) > 0

TestEmails == {<<>>, e_b_sp}

\* "Enviar PRUEBA"
SendTest(campaign, test_email, outcome) ==
    /\ send_page_open
    /\ IF Len(test_email) > 0
       THEN LET body == replace(campaign.body, placeholder, test_name)
                res == send_email_smtp(env, test_email, campaign.subject,
                                       body, outcome)
                status == IF res.ok THEN "SENT" ELSE "ERROR"
            IN  /\ Len(sends) < MaxSends
                /\ sends' = log_send(sends, campaign.id, NullId, test_email,
                                     status, res.err, now)
                /\ report' = [op |-> "send_test", campaign |-> campaign,
                              test_email |-> test_email, calls |-> <<res>>]
       ELSE /\ sends' = sends
            /\ report' = [op |-> "send_test", campaign |-> campaign,
                          test_email |-> test_email, calls |-> <<>>]
    /\ UNCHANGED <<contacts, contacts_seq, campaigns, contacts_df,
                   campaigns_df, env, now>>

\* the loop leaving at the first failed send
RECURSIVE send_from_until_error(_, _, _, _, _)
send_from_until_error(acc, campaign, recipients, outcomes, i) ==
    IF i > Len(recipients) THEN acc
    ELSE LET r == recipients[i]
             personalized == replace(campaign.body, placeholder, r.name)
             res == send_email_smtp(env, r.email, campaign.subject,
                                    personalized, outcomes[i])
             status == IF res.ok THEN "SENT" ELSE "ERROR"
             next == [log |-> log_send(acc.log, campaign.id, r.id, r.email,
                                       status, res.err, now),
                      calls |-> Append(acc.calls, res),
                      sent_ok |-> IF res.ok THEN acc.sent_ok + 1
                                  ELSE acc.sent_ok]
         IN  IF res.ok
             THEN send_from_until_error(next, campaign, recipients, outcomes,
                                        i + 1)
             ELSE next

\* the loop of "Enviar a TODOS los seleccionados" from recipient i on;
\* acc is the log with the calls made and the counter sent_ok
RECURSIVE send_from(_, _, _, _, _)
send_from(acc, campaign, recipients, outcomes, i) ==
    IF i > Len(recipients) THEN acc
    ELSE LET r == recipients[i]
             personalized == replace(campaign.body, placeholder, r.name)
             res == send_email_smtp(env, r.email, campaign.subject,
                                    personalized, outcomes[i])
             status == IF res.ok THEN "SENT" ELSE "ERROR"
         IN  send_from([log |-> log_send(acc.log, campaign.id, r.id, r.email,
                                         status, res.err, now),
                        calls |-> Append(acc.calls, res),
                        sent_ok |-> IF res.ok THEN acc.sent_ok + 1
                                    ELSE acc.sent_ok],
                       campaign, recipients, outcomes, i + 1)

\* the selections of the multiselect: rows of the session frame, none twice
Selections(df) ==
    {s \in UNION {[1..n -> Range(df)] : n \in 0..Len(df)} :
        \A i, j \in 1..Len(s) : i # j => s[i] # s[j]}

\* "Enviar a TODOS los seleccionados"
SendAll(campaign, recipients, outcomes) ==
    LET done == send_from([log |-> sends, calls |-> <<>>, sent_ok |-> 0],
                          campaign, recipients, outcomes, 1)
    IN  /\ send_page_open
        /\ Len(sends) + Len(recipients) <= MaxSends
        /\ sends' = done.log
        /\ report' = [op |-> "send_all", campaign |-> campaign,
                      recipients |-> recipients, calls |-> done.calls,
                      sent_ok |-> done.sent_ok, total |-> Len(recipients)]
        /\ UNCHANGED <<contacts, contacts_seq, campaigns, contacts_df,
                       campaigns_df, env, now>>

\* ------------------------------------------------------------ specification
\* time passes between two handlers
Tick ==
    /\ now < MaxTime
    /\ now' = now + 1
    /\ UNCHANGED <<contacts, contacts_seq, campaigns, sends, contacts_df,
                   campaigns_df, env, report>>

\* init_db() and main()'s first reads, on a database file that holds the
\* contacts db (CREATE TABLE IF NOT EXISTS keeps the rows of an earlier run)
StartWith(db, envs) ==
    /\ contacts = db.rows
    /\ contacts_seq = db.seq
    /\ campaigns = <<>>
    /\ sends = <<>>
    /\ contacts_df = select_contacts(db.rows)
    /\ campaigns_df = <<>>
    /\ env \in envs
    /\ now = 0
    /\ report = [op |-> "start"]

empty_db == [rows |-> {}, seq |-> 0]

\* on a new database file
Start(envs) == StartWith(empty_db, envs)

\* the editor's frames over the table as it is
RECURSIVE frames_from(_, _, _, _)
frames_from(df, i, emails, names) ==
    IF i > Len(df) THEN {<<>>}
    ELSE {<<row>> \o rest : row \in EditedRows(df[i], emails, names),
                            rest \in frames_from(df, i + 1, emails, names)}

EditedFrames(emails, names) == frames_from(contacts_df, 1, emails, names)

CampaignsPage ==
    \E subject \in Subjects, body \in Bodies : CreateCampaign(subject, body)

\* the two buttons of the page, the SMTP server answering within answers
SendPage(answers) ==
    \/ \E campaign \in Range(campaigns_df), test_email \in TestEmails,
          outcome \in answers :
          SendTest(campaign, test_email, outcome)
    \/ \E campaign \in Range(campaigns_df),
          recipients \in Selections(contacts_df) :
          \E outcomes \in [1..Len(recipients) -> answers] :
              SendAll(campaign, recipients, outcomes)

\* The whole program: every handler of the three pages, with no SMTP
\* configuration (every send is simulated, the server never answers).
Init == Start({Env(None, None, None, None)})

Next ==
    \/ \E email \in {e_A, e_bad} : AddContact(<<>>, email, <<>>)
    \/ \E file \in {File(x_txt, l_upper, <<>>, <<>>),
                    File(x_csv, <<>>, <<h_name, k_tags>>, <<<<e_b_sp, e_a>>>>)} :
          ImportContacts(file)
    \/ \E edited \in EditedFrames({e_b_sp}, {}) : SaveChanges(edited)
    \/ \E delete_id \in {<<"1">>, <<"x">>} : DeleteById(delete_id)
    \/ \E row \in Range(contacts_df) : DeleteRow(row)
    \/ \E subject \in Subjects : CreateCampaign(subject, c_body)
    \/ SendPage({None})

Spec == Init /\ [][Next]_vars

\* The contacts page alone, with its full inputs and the clock.
InitContacts == Start({Env(None, None, None, None)})

NextContacts ==
    \/ \E name \in AddNames, email \in AddEmails, tags \in AddTags :
          AddContact(name, email, tags)
    \/ \E file \in SpecFiles : ImportContacts(file)
    \/ \E edited \in EditedFrames(EditEmails, EditNames) : SaveChanges(edited)
    \/ \E delete_id \in DeleteIds : DeleteById(delete_id)
    \/ \E row \in Range(contacts_df) : DeleteRow(row)
    \/ Tick

SpecContacts == InitContacts /\ [][NextContacts]_vars

\* The dispatcher and the transport in every environment, over contacts
\* entered through the add form.
InitSend == Start(Envs)

NextSend ==
    \/ \E email \in {e_a, e_b} : AddContact(n_A_sp, email, <<>>)
    \/ CampaignsPage
    \/ SendPage(SmtpOutcomes)

SpecSend == InitSend /\ [][NextSend]_vars

\* The import normalizer over every file: the first import of a session, into
\* a new database or into one that an earlier session left a contact in.
InitImport ==
    \E db \in {empty_db, insert_contact(empty_db, n_A_sp, e_A, t_t1, 0)} :
        StartWith(db, {Env(None, None, None, None)})

NextImport ==
    \E file \in ImportFiles : report.op = "start" /\ ImportContacts(file)

SpecImport == InitImport /\ [][NextImport]_vars

\* ------------------------------------------------------------------- claims
\* no two rows of the contacts table share an email or an id
UniqueEmails ==
    \A r, q \in contacts : (r.email = q.email \/ r.id = q.id) => r = q

\* the step is a handler named op that showed something new or wrote a table
Handled(op) ==
    /\ report'.op = op
    /\ <<report, contacts, sends>>' # <<report, contacts, sends>>

\* C1: after any sequence of adds, imports, edit saves and deletes no two
\* rows of the contact store share an email; an edit save that would give a
\* row the email another row holds is rejected for that row, which stays as
\* it was, and where no other row of the save was updated the whole table,
\* the row that holds the email included, is as before.
C1_UniqueEmail ==
    /\ UniqueEmails
    /\ [][/\ UniqueEmails'
          /\ Handled("save") =>
                /\ \A k \in 1..Len(report'.errors) :
                      report'.errors[k].kind = "integrity" =>
                          \E r \in contacts :
                              r.id = report'.errors[k].id /\ r \in contacts'
                /\ report'.updates = 0 => contacts' = contacts
                /\ {r.id : r \in contacts'} = {r.id : r \in contacts}]_vars

C1_Witness ==
    /\ report.op = "save"
    /\ \E k \in 1..Len(report.errors) : report.errors[k].kind = "integrity"
    /\ report.updates = 0
    /\ Cardinality(contacts) = 2

\* the records a step appended to the send log
Appended == SubSeq(sends', Len(sends) + 1, Len(sends'))

\* C2: a dispatch over n recipients appends exactly n SendRecords with the
\* campaign's id, the i-th with the i-th recipient's id and email, SENT where
\* the transport succeeded and ERROR with the transport's message where it
\* failed; every recipient is attempted whatever happened to the earlier
\* ones, and the count reported is the number of SENT records appended.
C2_Dispatch ==
    [][Handled("send_all") =>
          LET n == Len(report'.recipients)
              new == Appended
          IN  /\ Len(sends') = Len(sends) + n
              /\ SubSeq(sends', 1, Len(sends)) = sends
              /\ Len(report'.calls) = n
              /\ report'.total = n
              /\ \A i \in 1..n :
                    /\ new[i].campaign_id = report'.campaign.id
                    /\ new[i].contact_id = report'.recipients[i].id
                    /\ new[i].email = report'.recipients[i].email
                    /\ report'.calls[i].to = report'.recipients[i].email
                    /\ report'.calls[i].ok => new[i].status = "SENT"
                    /\ ~report'.calls[i].ok =>
                          /\ new[i].status = "ERROR"
                          /\ new[i].error = report'.calls[i].err
              /\ report'.sent_ok =
                    Cardinality({i \in 1..n : new[i].status = "SENT"})]_vars

\* a failure for the first recipient, then a success for the second
C2_Witness ==
    /\ report.op = "send_all"
    /\ report.total = 2
    /\ ~report.calls[1].ok
    /\ report.calls[2].ok
    /\ report.sent_ok = 1
    /\ sends[Len(sends)].status = "SENT"

\* C3: an insert of a contact whose trimmed, lower-cased email is in the
\* store leaves the table as it is (the same rows, with their id, name, tags
\* and created_at) and shows no error; an import adds rows only for emails
\* the store did not hold and leaves every row it held as it was.
C3_InsertIgnored ==
    [][/\ (/\ report'.op = "add"
           /\ is_valid_email(report'.email)
           /\ \E r \in contacts : r.email = lower(strip(report'.email)))
          => contacts' = contacts /\ report'.error = "none"
       /\ Handled("import") =>
             /\ contacts \subseteq contacts'
             /\ \A r \in contacts' \ contacts :
                   \A q \in contacts : q.email # r.email]_vars

\* the form was accepted for an email whose row holds another name and an
\* earlier created_at than this insert would have written
C3_Witness ==
    /\ report.op = "add"
    /\ report.error = "none"
    /\ \E r \in contacts :
          /\ r.email = lower(strip(report.email))
          /\ r.name # strip(report.name)
          /\ r.created_at < now

\* unset (None) or empty
unset_or_empty(v) == v = None \/ Len(v) = 0

\* the calls of the last handler were all simulated: delivered, the text
\* SIMULATED, no SMTP connection
AllSimulated ==
    report.op \in {"send_all", "send_test"} =>
        \A i \in 1..Len(report.calls) :
            /\ report.calls[i].ok
            /\ report.calls[i].err = SIMULATED
            /\ ~report.calls[i].connected

\* C4 as stated: with SMTP_HOST, SMTP_USER, SMTP_PASS or FROM_EMAIL unset or
\* empty in the environment, every transport call is simulated.
C4_Original ==
    (\/ unset_or_empty(env.SMTP_HOST)
     \/ unset_or_empty(env.SMTP_USER)
     \/ unset_or_empty(env.SMTP_PASS)
     \/ unset_or_empty(env.FROM_EMAIL)) => AllSimulated

\* C4, amended: with the host, the username or the password unset or empty,
\* or with the from-address empty (the from-address is FROM_EMAIL and, where
\* that variable is unset, the username), every transport call returns
\* (true, "SIMULATED") and opens no SMTP connection.
C4_Simulated ==
    (\/ unset_or_empty(env.SMTP_HOST)
     \/ unset_or_empty(env.SMTP_USER)
     \/ unset_or_empty(env.SMTP_PASS)
     \/ env.FROM_EMAIL = <<>>) => AllSimulated

\* only the from-address is empty, and a call was made
C4_Witness ==
    /\ env = Env(smtp_value, smtp_value, smtp_value, <<>>)
    /\ report.op = "send_all"
    /\ Len(report.calls) = 2

\* C5: every SendRecord with status SENT has an empty error text.
C5_SentHasNoError ==
    \A i \in 1..Len(sends) : sends[i].status = "SENT" => sends[i].error = <<>>

\* the candidates of a TXT file before the duplicates are dropped, in file
\* order
TxtCandidates(text) ==
    valid_rows(clean_email(
        txt_lines(non_empty(map_strip(split(text, LineBreaks))))))

\* C6: the candidates of a TXT import hold each valid email at most once, and
\* the candidate kept for an email is its first occurrence in file order,
\* from a structured line or a token line alike; the two lines
\* "a@x.co;A;t1", "A@X.CO" give the one candidate a@x.co, A, t1.
C6_TxtFirstWins ==
    (report.op = "import" /\ report.file.ext = x_txt) =>
        LET all == TxtCandidates(report.file.text)
            df == report.df
        IN  /\ \A i, j \in 1..Len(df) : df[i].email = df[j].email => i = j
            /\ \A i \in 1..Len(all) : \E j \in 1..Len(df) :
                  df[j].email = all[i].email
            /\ \A j \in 1..Len(df) : \E i \in 1..Len(all) :
                  /\ df[j] = all[i]
                  /\ \A k \in 1..(i - 1) : all[k].email # all[i].email
            /\ report.file.text = l_struct \o <<"\n">> \o l_upper =>
                  df = <<Row(e_a, n_A, t_t1)>>

C6_Witness ==
    /\ report.op = "import"
    /\ report.file.ext = x_txt
    /\ report.file.text = l_struct \o <<"\n">> \o l_upper
    /\ Len(report.df) = 1

\* the step is a test send to a test email that was filled in
TestSent == Handled("send_test") /\ Len(report'.test_email) > 0

\* one transport call to the test email and one record for it, contact_id
\* NULL, the body rendered with name for every {{name}}
TestSendWith(name) ==
    /\ Len(report'.calls) = 1
    /\ report'.calls[1].to = report'.test_email
    /\ report'.calls[1].subject = report'.campaign.subject
    /\ report'.calls[1].body = replace(report'.campaign.body, placeholder, name)
    /\ Len(sends') = Len(sends) + 1
    /\ SubSeq(sends', 1, Len(sends)) = sends
    /\ sends'[Len(sends')].contact_id = NullId
    /\ sends'[Len(sends')].email = report'.test_email
    /\ sends'[Len(sends')].campaign_id = report'.campaign.id

\* C7 as stated: the test send renders {{name}} as "Test".
C7_Original == [][TestSent => TestSendWith(<<"T","e","s","t">>)]_vars

\* C7, amended: a test send renders the campaign body with every {{name}}
\* replaced by the fixed name "Prueba", makes exactly one transport call, to
\* the test email supplied, and appends exactly one SendRecord, its
\* contact_id null and its email the test email supplied.
C7_TestSend ==
    [][TestSent =>
          /\ TestSendWith(<<"P","r","u","e","b","a">>)
          /\ report'.campaign.body = c_body =>
                report'.calls[1].body =
                    <<"P","r","u","e","b","a","!","P","r","u","e","b","a">>]_vars

C7_Witness ==
    /\ report.op = "send_test"
    /\ report.campaign.body = c_body
    /\ Len(report.calls) = 1
    /\ sends[Len(sends)].contact_id = NullId

\* C8: a TXT line that lists bare emails separated by commas, whitespace or
\* semicolons gives one candidate per email, name and tags empty.
C8_BareEmailList ==
    (/\ report.op = "import"
     /\ report.file.ext = x_txt
     /\ report.file.text \in {l_comma, l_space, l_semi})
    => report.df = <<Row(e_a, <<>>, <<>>), Row(e_b, <<>>, <<>>)>>

\* C9: the send log is append-only: no step changes or removes a record, and
\* a contact's delete or edit leaves the records that name it as they were.
C9_AppendOnly ==
    [][/\ Len(sends') >= Len(sends)
       /\ \A i \in 1..Len(sends) : sends'[i] = sends[i]]_vars

\* a record outlives its contact, and another keeps the email its contact
\* had before an edit
C9_Witness ==
    /\ \E i \in 1..Len(sends) :
          /\ sends[i].contact_id # NullId
          /\ \A r \in contacts : r.id # sends[i].contact_id
    /\ \E i \in 1..Len(sends) : \E r \in contacts :
          r.id = sends[i].contact_id /\ r.email # sends[i].email

\* the CSV's header has no column named email, in any case
NoEmailColumn(file) ==
    /\ file.ext = x_csv
    /\ \A i \in 1..Len(file.columns) : lower(file.columns[i]) # k_email

\* C10: the import of a CSV with no email column stops with the error: no
\* candidate, no insert, the contact store as it was.
C10_CsvNeedsEmail ==
    [][(report'.op = "import" /\ NoEmailColumn(report'.file)) =>
          /\ report'.error
          /\ report'.df = <<>>
          /\ report'.count = 0
          /\ contacts' = contacts
          /\ contacts_seq' = contacts_seq]_vars

\* such a file, with a valid email in its first column, over a store that
\* holds a contact
C10_Witness ==
    /\ report.op = "import"
    /\ NoEmailColumn(report.file)
    /\ is_valid_email(lower(strip(py_str(report.file.cells[1][1]))))
    /\ contacts # {}

\* every email of the contact store is its own strip().lower() and has the
\* shape the validator demands
StoredEmailsClean ==
    \A r \in contacts :
        /\ r.email = lower(strip(r.email))
        /\ is_valid_email(r.email)

\* what a save did to the row of the editor: left as it was where the new
\* email fails the validator, and written where it passes and no other row
\* holds it before or after the save
SaveRowOutcome(row) ==
    LET new_email == lower(strip(py_str(row.email)))
        old == CHOOSE r \in contacts : r.id = row.id
    IN  IF ~is_valid_email(new_email)
        THEN old \in contacts'
        ELSE (\A r \in contacts \cup contacts' :
                 r.id # row.id => r.email # new_email) =>
             [old EXCEPT !.email = new_email,
                         !.name = strip(py_str(row.name)),
                         !.tags = strip(py_str(row.tags))] \in contacts'

\* C11: after any sequence of adds, imports, edit saves and deletes every
\* stored email is lower-case, trimmed and of the validator's shape; an edit
\* save leaves the row whose new email fails the validator as it was and
\* still writes the other edited rows of the same save.
C11_StoredEmailsClean ==
    /\ []StoredEmailsClean
    /\ [][Handled("save") =>
             \A i \in 1..Len(report'.edited) :
                 SaveRowOutcome(report'.edited[i])]_vars

\* a save that refused a row for its email and wrote, trimmed and in lower
\* case, the email typed into a row after it
C11_Witness ==
    /\ report.op = "save"
    /\ report.updates >= 1
    /\ \E i \in 1..Len(report.edited) : \E j \in 1..Len(report.edited) :
          /\ i < j
          /\ ~is_valid_email(lower(strip(py_str(report.edited[i].email))))
          /\ report.edited[j].email # lower(strip(report.edited[j].email))
          /\ \E r \in contacts :
                /\ r.id = report.edited[j].id
                /\ r.email = lower(strip(report.edited[j].email))

====
